---- MODULE Spec2Model ----
(***************************************************************************)
(* Model of shellcaster's bounded-concurrency fetch pipeline:              *)
(*   - sync_podcasts and import (src/main.rs): submission of feed jobs and *)
(*     the aggregation loop that counts the messages of a batch;           *)
(*   - download_list / download_file / get_file_ext (src/downloads.rs);    *)
(*   - the mock Panel of the user interface (src/ui/mock_panel.rs);        *)
(*   - the worker pool and feeds::check_feed, whose code is not part of    *)
(*     the sources at hand and which are modelled from their contract.     *)
(***************************************************************************)
EXTENDS Integers, Sequences, FiniteSets, TLC

\* ---------------------------------------------------------------- bounds
\* Longest podcast list of a sync or import batch.
MaxJobs == 3
\* Longest episode list handed to download_list.
MaxEpisodes == 2
\* Largest pool size (config.simultaneous_downloads).
MaxSize == 2
\* Largest configured retry budget (config.max_retries).
MaxRetries == 2
\* Number of distinct feed URLs.
MaxUrls == 2
\* Longest batch whose messages are drawn from the whole Message type.
MaxBatch == 4
\* Longest batch one of whose jobs sends a surplus message.
MaxStrayBatch == 2
\* Longest URL string handed to get_file_ext.
MaxUrlLen == 4
\* Width of the unsigned budget: stands for 2^64 of usize.
UsizeModulus == 64

\* GET attempts one job may make in the model (the wrapped budget of a
\* release build is never exhausted within it).
MaxAttempts == MaxRetries + 2

VARIABLES
    mode,          \* "sync" | "import" | "download": which operation runs
    build,         \* "debug" | "release": overflow checks on or off
    replace,       \* import: args.is_present("replace")
    db,            \* URLs of the podcasts in the database
    db_cleared,    \* clear_db has been called and succeeded
    loaded,        \* the list of the batch has been obtained
    opml,          \* import: the list opml::import returned
    old_podcasts,  \* import: old_podcasts, the URLs get_podcasts returned
    db_log,        \* the calls made on the database: by import before its
                   \* loop, and by the loop of either operation
    podcast_list,  \* sync_podcasts / import: podcast_list (URLs)
    episodes,      \* download_list: episodes (ids)
    pc,            \* position of the main thread
    size,          \* Threadpool::new(size)
    max_retries,   \* config.max_retries, the budget handed to every job
    pool_created,  \* Threadpool::new has been called
    chan_created,  \* mpsc::channel() has been called
    queue,         \* the pool's shared work queue (job indices)
    running,       \* the jobs a worker is executing
    jobs,          \* one record per submitted job
    chan,          \* messages sent and not yet received
    received,      \* log of the messages the aggregation loop has handled
    msg_counter,   \* msg_counter of the aggregation loop
    failure,       \* failure of the aggregation loop
    ret,           \* "none" | "ok" | "err": the operation's return value
    mime,          \* get_file_ext: mime_type argument
    url,           \* get_file_ext: url argument
    resolved,      \* the extension of (mime, url) has been resolved
    ext,           \* the extension download_file uses
    title,         \* ep_data.title
    pubdate,       \* ep_data.pubdate
    filename_prefix, \* date template rendered before the title
    filename_suffix, \* date template rendered after the title
    dest_name,     \* the name download_file pushes onto the destination
    responses,     \* history of the results of agent.get(..).call()
    buffer,        \* mock Panel: buffer
    n_row          \* mock Panel: n_row

vars == << mode, build, replace, db, db_cleared, loaded, opml, old_podcasts,
           db_log, podcast_list, episodes,
           pc, size, max_retries, pool_created, chan_created, queue, running,
           jobs, chan, received, msg_counter, failure, ret, mime, url,
           resolved, ext, title, pubdate, filename_prefix, filename_suffix,
           dest_name, responses, buffer, n_row >>

mainVars == << replace, db, db_cleared, loaded, opml, old_podcasts, db_log,
               podcast_list, episodes, pc,
               pool_created, chan_created, received, msg_counter, failure, ret >>
nameVars == << mime, url, resolved, ext, title, pubdate, filename_prefix,
              filename_suffix, dest_name >>
panelVars == << buffer, n_row >>
extVars == << nameVars, responses, panelVars >>
cfgVars == << mode, build, size, max_retries >>

\* ----------------------------------------------------------- option type
None == [some |-> FALSE]
Some(v) == [some |-> TRUE, val |-> v]

\* ------------------------------------------------------------- messages
FeedTags == {"SyncData", "NewData", "Error"}
DlFailureTags == {"ResponseError", "FileCreateError", "FileWriteError"}
DlTags == {"Complete"} \cup DlFailureTags
MessageTags == FeedTags \cup DlTags

\* Sequence of the elements of a set of integers, ascending.
RECURSIVE SeqOfSet(_)
SeqOfSet(S) ==
    IF S = {} THEN << >>
    ELSE LET m == CHOOSE x \in S : \A y \in S : x <= y
         IN << m >> \o SeqOfSet(S \ {m})

\* A job as submitted: `item` is the podcast URL or the episode id.
NewJob(item) ==
    [ pc |-> "queued", item |-> item, budget |-> max_retries, attempts |-> 0,
      fetched |-> FALSE, file_path |-> "unset", dst |-> "none",
      created |-> FALSE, result |-> "none", sent |-> 0,
      send_failed |-> FALSE ]


\* ------------------------------------------------------------------ Init
\* The URL lists an OPML file can hold (duplicates allowed).
OpmlLists == UNION { [1..n -> 1..MaxUrls] : n \in 0..MaxJobs }

Init ==
    /\ mode \in {"sync", "import", "download"}
    /\ size \in 1..MaxSize
    \* the build and the budget decide nothing in sync and import, whose
    \* jobs are feed jobs: one value of each is enough there
    /\ build \in (IF mode = "download" THEN {"debug", "release"} ELSE {"release"})
    /\ max_retries \in (IF mode = "download" THEN 0..MaxRetries ELSE {MaxRetries})
    /\ replace \in (IF mode = "import" THEN BOOLEAN ELSE {FALSE})
    /\ db \in (CASE mode = "sync" -> { 1..n : n \in 0..MaxJobs }
                 [] mode = "import" -> { 1..n : n \in 0..MaxUrls }
                 [] OTHER -> { {} })
    /\ db_cleared = FALSE
    /\ loaded = FALSE
    /\ opml = << >>
    /\ old_podcasts = {}
    /\ db_log = << >>
    /\ podcast_list = << >>
    /\ episodes \in (IF mode = "download"
                     THEN { [i \in 1..n |-> i] : n \in 0..MaxEpisodes }
                     ELSE { << >> })
    \* download_list is called by a controller that owns the pool and the
    \* channel; sync_podcasts and import create their own
    /\ pc = (IF mode = "download" THEN "submit" ELSE "start")
    /\ pool_created = (mode = "download")
    /\ chan_created = (mode = "download")
    /\ queue = << >>
    /\ running = {}
    /\ jobs = << >>
    /\ chan = << >>
    /\ received = << >>
    /\ msg_counter = 0
    /\ failure = FALSE
    /\ ret = "none"
    /\ mime = None
    /\ url = << >>
    /\ resolved = FALSE
    /\ ext = << >>
    /\ title = << >>
    /\ pubdate = None
    /\ filename_prefix = << >>
    /\ filename_suffix = << >>
    /\ dest_name = None
    /\ responses = << >>
    /\ n_row = 2
    /\ buffer = << >>

\* ----------------------------------------------------------- worker pool
\* Threadpool::execute: the unit is appended to the shared queue.
Execute(item) ==
    /\ jobs' = Append(jobs, NewJob(item))
    /\ queue' = Append(queue, Len(jobs) + 1)

\* Mutant of WorkerFree: a worker is found free one unit too late.
WorkerFreeOffByOne == Cardinality(running) <= size

\* A worker may take a unit while fewer than `size` units are executing.
WorkerFree == Cardinality(running) < size

\* A free worker takes the unit at the head of the queue.
WorkerStart ==
    /\ pool_created
    /\ queue # << >>
    /\ WorkerFree
    /\ LET j == Head(queue) IN
        /\ queue' = Tail(queue)
        /\ running' = running \cup {j}
        /\ jobs' = [jobs EXCEPT ![j].pc = "running"]
    /\ UNCHANGED << mainVars, extVars, cfgVars, chan >>

\* Mutant of ReceiverAlive: the receiver is gone once the jobs are submitted.
ReceiverGoneAfterSubmit == mode = "download" \/ (chan_created /\ pc = "submit")

\* rx_to_main is a local of sync_podcasts and of import: it lives from
\* mpsc::channel() to the return of the function. The receiver download_list
\* sends to belongs to its caller.
ReceiverAlive == mode = "download" \/ (chan_created /\ pc # "done")

\* tx.send(message).expect("Thread messaging error") of job j, which has
\* reached the state `job`: the message is queued and the unit ends; when
\* the receiver is gone send returns Err and expect panics. Either way the
\* worker is free.
SendAndEnd(j, job, tag) ==
    /\ IF ReceiverAlive
       THEN /\ chan' = Append(chan, [tag |-> tag, job |-> j, item |-> job.item])
            /\ jobs' = [jobs EXCEPT ![j] = [job EXCEPT !.pc = "done",
                                                       !.result = tag,
                                                       !.sent = @ + 1]]
       ELSE /\ chan' = chan
            /\ jobs' = [jobs EXCEPT ![j] = [job EXCEPT !.pc = "panicked",
                                                       !.result = tag,
                                                       !.send_failed = TRUE]]
    /\ running' = running \ {j}

\* feeds::check_feed: one unit on the pool, owning a clone of the sender.
CheckFeed(item) == Execute(item)

\* The tags a feed job may send: SyncData for a feed that has an id (sync),
\* NewData for one that has none (import), or Error.
FeedOutcomes == IF mode = "sync" THEN {"SyncData", "Error"} ELSE {"NewData", "Error"}

\* The unit check_feed submitted: it sends exactly one feed message.
FeedJob(j) ==
    /\ mode \in {"sync", "import"}
    /\ j \in running
    /\ jobs[j].pc = "running"
    /\ \E tag \in FeedOutcomes :
        SendAndEnd(j, jobs[j], tag)
    /\ UNCHANGED << mainVars, extVars, cfgVars, queue >>


poolVars == << queue, running, jobs, chan >>

\* ------------------------------------------------- the aggregation loop
\* Mutant of NothingToDo: the empty check is missing.
NothingToDoNever(list) == FALSE

\* podcast_list.is_empty(): nothing to do, return Ok(()).
NothingToDo(list) == Len(list) = 0

\* Threadpool::new(config.simultaneous_downloads) and mpsc::channel().
CreatePoolAndChannel ==
    /\ pool_created' = TRUE
    /\ chan_created' = TRUE

\* Mutant of StoreCall: each loop matches the other loop's data variant.
StoreCallSwapped(m, tag) ==
    CASE m = "sync" /\ tag = "NewData" -> "update_podcast"
      [] m = "import" /\ tag = "SyncData" -> "insert_podcast"
      [] OTHER -> "none"

\* The store call the loop makes for a message, if any: update_podcast for
\* SyncData in sync_podcasts, insert_podcast for NewData in import. Every
\* other tag but Error falls to the `_ => ()` arm.
StoreCall(m, tag) ==
    CASE m = "sync" /\ tag = "SyncData" -> "update_podcast"
      [] m = "import" /\ tag = "NewData" -> "insert_podcast"
      [] OTHER -> "none"

\* Mutant of SetsFailure: the result of the store call is dropped.
SetsFailureErrorOnly(m, tag, db_result) == tag = "Error"

\* Mutant of SetsFailure: the download failure tags set the flag too.
SetsFailureAnyFailureTag(m, tag, db_result) ==
    \/ StoreCall(m, tag) # "none" /\ db_result = "fail"
    \/ tag \in {"Error"} \cup DlFailureTags

\* Mutant of SetsFailure: only a failed insert_podcast sets the flag.
SetsFailureOnInsertOnly(m, tag, db_result) ==
    \/ m = "import" /\ tag = "NewData" /\ db_result = "fail"
    \/ tag = "Error"

\* Mutant of SetsFailure: only the first message of a batch is looked at.
SetsFailureFirstOnly(m, tag, db_result) ==
    /\ msg_counter = 0
    /\ \/ tag = "Error"
       \/ (\/ m = "sync" /\ tag = "SyncData"
           \/ m = "import" /\ tag = "NewData") /\ db_result = "fail"

\* The match of the loop body: whether this message sets `failure`.
SetsFailure(m, tag, db_result) ==
    \/ StoreCall(m, tag) # "none" /\ db_result = "fail"
    \/ tag = "Error"

\* Mutant of LoopBreaks: the loop stops one message late.
LoopBreaksLate(counter, list) == counter > Len(list)

\* Mutant of LoopBreaks: the loop stops one message early.
LoopBreaksEarly(counter, list) == counter >= Len(list) - 1

\* if msg_counter >= podcast_list.len() { break; }
LoopBreaks(counter, list) == counter >= Len(list)

\* if failure { Err(..) } else { Ok(()) }
Verdict(flag) == IF flag THEN "err" ELSE "ok"

\* A call on the database and its result.
DbCall(call, result) == [call |-> call, result |-> result]

\* Mutant of SenderAlive: the function keeps no sender of its own.
SenderDropped == FALSE

\* tx_to_main is a local of the function: it is cloned for every job and
\* lives until the function returns.
SenderAlive == TRUE

\* Every sender of the channel is gone: the function's own and the clone of
\* every unit.
Disconnected ==
    /\ ~SenderAlive
    /\ queue = << >>
    /\ running = {}

\* One iteration of `while let Some(message) = rx_to_main.iter().next()`,
\* and, when it leaves the loop, the function's return. next() blocks while
\* the channel is empty and a sender is alive; it returns None, which ends
\* the loop, when the channel is empty and disconnected.
LoopIteration ==
    /\ pc = "loop"
    /\ IF chan = << >>
       THEN /\ Disconnected
            /\ pc' = "done"
            /\ ret' = Verdict(failure)
            /\ UNCHANGED << chan, received, db, db_log, failure, msg_counter >>
       ELSE
       LET message == Head(chan)
           call == StoreCall(mode, message.tag)
       IN \E db_result \in (IF call = "none" THEN {"none"} ELSE {"ok", "fail"}) :
            /\ chan' = Tail(chan)
            /\ db_log' = IF call = "none" THEN db_log
                         ELSE Append(db_log, DbCall(call, db_result))
            /\ received' = Append(received,
                   [tag |-> message.tag, job |-> message.job,
                    call |-> call, db_result |-> db_result])
            /\ db' = IF call = "insert_podcast" /\ db_result = "ok"
                     THEN db \cup {message.item} ELSE db
            /\ failure' = (failure \/ SetsFailure(mode, message.tag, db_result))
            /\ msg_counter' = msg_counter + 1
            /\ IF LoopBreaks(msg_counter', podcast_list)
               THEN pc' = "done" /\ ret' = Verdict(failure')
               ELSE UNCHANGED << pc, ret >>
    /\ UNCHANGED << replace, db_cleared, loaded, opml, old_podcasts,
                    podcast_list, episodes,
                    pool_created, chan_created, queue, running, jobs >>
    /\ UNCHANGED << extVars, cfgVars >>

\* ---------------------------------------------------------- sync_podcasts
\* Database::connect, get_podcasts, the empty check, the pool and channel.
SyncStart ==
    /\ mode = "sync"
    /\ pc = "start"
    /\ \/ \* connect or get_podcasts fails: `?` returns the error
          /\ pc' = "done"
          /\ ret' = "err"
          /\ UNCHANGED << loaded, podcast_list, pool_created, chan_created >>
       \/ /\ loaded' = TRUE
          /\ podcast_list' = SeqOfSet(db)
          /\ IF NothingToDo(podcast_list')
             THEN /\ pc' = "done"
                  /\ ret' = "ok"
                  /\ UNCHANGED << pool_created, chan_created >>
             ELSE /\ CreatePoolAndChannel
                  /\ pc' = "submit"
                  /\ ret' = ret
    /\ UNCHANGED << replace, db, db_cleared, opml, old_podcasts, db_log, episodes, received,
                    msg_counter, failure >>
    /\ UNCHANGED << poolVars, extVars, cfgVars >>

\* One iteration of `for pod in podcast_list.iter()`: one check_feed call.
SubmitFeed ==
    /\ pc = "submit"
    /\ Len(jobs) < Len(podcast_list)
    /\ CheckFeed(podcast_list[Len(jobs) + 1])
    /\ pc' = IF Len(jobs') = Len(podcast_list) THEN "loop" ELSE "submit"
    /\ UNCHANGED << replace, db, db_cleared, loaded, opml, old_podcasts, db_log, podcast_list,
                    episodes, pool_created, chan_created, received,
                    msg_counter, failure, ret >>
    /\ UNCHANGED << running, chan, extVars, cfgVars >>

SyncSubmit == mode = "sync" /\ SubmitFeed

SyncLoop == mode = "sync" /\ LoopIteration

\* ----------------------------------------------------------------- import
\* Mutant of FilterKnown: nothing is removed from the list.
FilterKnownNothing(list, old) == list

\* if URL is already in database, remove it from import
FilterKnown(list, old) ==
    SelectSeq(list, LAMBDA u : u \notin old)

\* Reading and parsing the OPML file, and the first empty check.
ImportStart ==
    /\ mode = "import"
    /\ pc = "start"
    /\ \/ \* the file cannot be read or parsed
          /\ pc' = "done"
          /\ ret' = "err"
          /\ UNCHANGED << loaded, opml, podcast_list >>
       \/ \E list \in OpmlLists :
            /\ loaded' = TRUE
            /\ opml' = list
            /\ podcast_list' = list
            /\ IF NothingToDo(list)
               THEN pc' = "done" /\ ret' = "ok"
               ELSE pc' = "db" /\ ret' = ret
    /\ UNCHANGED << replace, db, db_cleared, old_podcasts, db_log, episodes,
                    pool_created, chan_created, received, msg_counter,
                    failure >>
    /\ UNCHANGED << poolVars, extVars, cfgVars >>

\* Mutant of ReplaceRequested: the replace option is not looked at.
ReplaceIgnored == FALSE

\* args.is_present("replace")
ReplaceRequested == replace

\* Database::connect, clear_db or get_podcasts and the filter on known
\* URLs, the second empty check, the pool and the channel. A call that fails
\* makes `?` return the error.
ImportDb ==
    /\ mode = "import"
    /\ pc = "db"
    /\ \E connected \in {"ok", "err"}, second \in {"ok", "err"} :
        LET first_call == << DbCall("connect", connected) >>
            second_call == DbCall(IF ReplaceRequested THEN "clear_db"
                                  ELSE "get_podcasts", second)
        IN IF connected = "err" \/ second = "err"
           THEN /\ db_log' = (IF connected = "err" THEN first_call
                              ELSE Append(first_call, second_call))
                /\ pc' = "done"
                /\ ret' = "err"
                /\ UNCHANGED << db, db_cleared, old_podcasts, podcast_list,
                                pool_created, chan_created >>
           ELSE /\ db_log' = Append(first_call, second_call)
                /\ IF ReplaceRequested
                   THEN /\ db' = {}
                        /\ db_cleared' = TRUE
                        /\ podcast_list' = podcast_list
                        /\ old_podcasts' = old_podcasts
                   ELSE /\ old_podcasts' = db
                        /\ podcast_list' = FilterKnown(podcast_list, old_podcasts')
                        /\ UNCHANGED << db, db_cleared >>
                /\ IF NothingToDo(podcast_list')
                   THEN /\ pc' = "done"
                        /\ ret' = "ok"
                        /\ UNCHANGED << pool_created, chan_created >>
                   ELSE /\ CreatePoolAndChannel
                        /\ pc' = "submit"
                        /\ ret' = ret
    /\ UNCHANGED << replace, loaded, opml, episodes, received, msg_counter,
                    failure >>
    /\ UNCHANGED << poolVars, extVars, cfgVars >>

ImportSubmit == mode = "import" /\ SubmitFeed

ImportLoop == mode = "import" /\ LoopIteration


\* ------------------------------------------------------------ downloads
\* Mutant of EpisodesLeft: the last descriptor of the list is skipped.
EpisodesLeftButLast(list, submitted) == submitted + 1 < Len(list)

\* `for ep in episodes.into_iter()`: the iterator has a next descriptor.
EpisodesLeft(list, submitted) == submitted < Len(list)

\* One iteration of `for ep in episodes.into_iter()`: one unit on the pool,
\* owning the descriptor and a clone of the sender. After the last one
\* download_list returns.
DownloadList ==
    /\ mode = "download"
    /\ pc = "submit"
    /\ IF EpisodesLeft(episodes, Len(jobs))
       THEN /\ Execute(episodes[Len(jobs) + 1])
            /\ pc' = IF EpisodesLeft(episodes, Len(jobs'))
                     THEN "submit" ELSE "returned"
       ELSE /\ pc' = "returned"
            /\ UNCHANGED << jobs, queue >>
    /\ UNCHANGED << replace, db, db_cleared, loaded, opml, old_podcasts, db_log, podcast_list,
                    episodes, pool_created, chan_created, received,
                    msg_counter, failure, ret >>
    /\ UNCHANGED << running, chan, extVars, cfgVars >>

\* `max_retries -= 1` on a usize: with overflow checks the subtraction
\* panics at 0, without them it wraps.
DecrementPanics(b) == build = "debug" /\ b = 0
Decrement(b) == (b - 1) % UsizeModulus

\* Mutant of BudgetExhausted: the job gives up with one attempt left.
BudgetExhaustedOffByOne(b) == b <= 1

\* if max_retries == 0 { break Err(()); }
BudgetExhausted(b) == b = 0

\* The closure of download_list after download_file has returned `result`,
\* with `job` the state the job has reached: tx.send(Message::Dl(result)).
ReturnAndSend(j, job, result) == SendAndEnd(j, job, result)

\* agent.get(&ep_data.url).call(): a response, or an error that is either
\* a non-success HTTP status or a transport failure.
Responses == {"Ok", "StatusError", "TransportError"}

\* Mutant of ResponseIsOk: a non-success status counts as a response.
ResponseIsOkOrStatus(response) == response \in {"Ok", "StatusError"}

\* The match of the retry loop: `Ok(resp)` against `Err(_)`.
ResponseIsOk(response) == response = "Ok"

\* One pass of the retry loop, for the result `response` of the GET.
DlFetchWith(j, response) ==
    /\ mode = "download"
    /\ j \in running
    /\ jobs[j].pc = "running"
    /\ jobs[j].attempts < MaxAttempts
    /\ IF ResponseIsOk(response)
       THEN /\ jobs' = [jobs EXCEPT ![j].pc = "fetched", ![j].fetched = TRUE,
                                    ![j].attempts = @ + 1]
            /\ UNCHANGED << running, chan >>
       ELSE IF DecrementPanics(jobs[j].budget)
       THEN \* the unit unwinds: nothing is sent
            /\ jobs' = [jobs EXCEPT ![j].pc = "panicked", ![j].attempts = @ + 1]
            /\ running' = running \ {j}
            /\ chan' = chan
       ELSE IF BudgetExhausted(Decrement(jobs[j].budget))
       THEN ReturnAndSend(j, [jobs[j] EXCEPT !.budget = Decrement(@),
                                             !.attempts = @ + 1],
                          "ResponseError")
       ELSE /\ jobs' = [jobs EXCEPT ![j].budget = Decrement(@),
                                    ![j].attempts = @ + 1]
            /\ UNCHANGED << running, chan >>
    /\ UNCHANGED << mainVars, nameVars, panelVars, cfgVars, queue >>

\* One pass of the retry loop: a GET of the episode URL.
DlFetch(j) ==
    /\ \E response \in Responses : DlFetchWith(j, response)
    /\ UNCHANGED responses

\* The same pass, with the result of the GET kept in the history.
DlFetchLogged(j) ==
    \E response \in Responses :
        /\ DlFetchWith(j, response)
        /\ responses' = Append(responses, response)

\* let dst = File::create(&file_path): the first file I/O of the job. The
\* descriptor is not touched yet.
DlCreate(j) ==
    /\ mode = "download"
    /\ j \in running
    /\ jobs[j].pc = "fetched"
    /\ \E dst \in {"Ok", "Err"} :
        jobs' = [jobs EXCEPT ![j].pc = "opened", ![j].dst = dst,
                             ![j].created = (dst = "Ok")]
    /\ UNCHANGED << running, chan >>
    /\ UNCHANGED << mainVars, extVars, cfgVars, queue >>

\* Mutant of StorePath: the descriptor keeps its unset path.
StorePathSkipped(job) == job

\* Mutant of StorePath: storing the path also resets the descriptor's id.
StorePathResetsId(job) == [job EXCEPT !.file_path = "set", !.item = 0]

\* ep_data.file_path = Some(file_path)
StorePath(job) == [job EXCEPT !.file_path = "set"]

\* The statement after File::create: the path is stored into the
\* descriptor, then `if dst.is_err()` returns FileCreateError.
DlStorePath(j) ==
    /\ mode = "download"
    /\ j \in running
    /\ jobs[j].pc = "opened"
    /\ IF jobs[j].dst = "Err"
       THEN ReturnAndSend(j, StorePath(jobs[j]), "FileCreateError")
       ELSE /\ jobs' = [jobs EXCEPT ![j] = [StorePath(@) EXCEPT !.pc = "created"]]
            /\ UNCHANGED << running, chan >>
    /\ UNCHANGED << mainVars, extVars, cfgVars, queue >>

\* std::io::copy(&mut reader, &mut dst.unwrap())
DlCopy(j) ==
    /\ mode = "download"
    /\ j \in running
    /\ jobs[j].pc = "created"
    /\ \E copied \in {"Ok", "Err"} :
        ReturnAndSend(j, jobs[j],
                      IF copied = "Ok" THEN "Complete" ELSE "FileWriteError")
    /\ UNCHANGED << mainVars, extVars, cfgVars, queue >>

\* ------------------------------------------------------- the specification
JobIds == 1..Len(jobs)

MainThread ==
    \/ SyncStart
    \/ SyncSubmit
    \/ SyncLoop
    \/ ImportStart
    \/ ImportDb
    \/ ImportSubmit
    \/ ImportLoop
    \/ DownloadList

Next ==
    \/ SyncStart
    \/ SyncSubmit
    \/ SyncLoop
    \/ ImportStart
    \/ ImportDb
    \/ ImportSubmit
    \/ ImportLoop
    \/ DownloadList
    \/ WorkerStart
    \/ \E j \in JobIds : FeedJob(j)
    \/ \E j \in JobIds : DlFetch(j)
    \/ \E j \in JobIds : DlCreate(j)
    \/ \E j \in JobIds : DlStorePath(j)
    \/ \E j \in JobIds : DlCopy(j)

Spec == Init /\ [][Next]_vars

\* The batches of sync_podcasts and import, for the properties of their
\* termination. The database of an import knows every URL an OPML file can
\* name: with `replace` it is wiped and the whole list is submitted, without
\* it the list is filtered down to nothing.
InitBatch ==
    /\ Init
    /\ mode \in {"sync", "import"}
    /\ mode = "import" => db = 1..MaxUrls

NextBatch ==
    \/ SyncStart
    \/ SyncSubmit
    \/ SyncLoop
    \/ ImportStart
    \/ ImportDb
    \/ ImportSubmit
    \/ ImportLoop
    \/ WorkerStart
    \/ \E j \in JobIds : FeedJob(j)

\* The main thread and every worker of the pool are operating-system
\* threads: each keeps running while it has a step to take.
FairSpec ==
    /\ InitBatch
    /\ [][NextBatch]_vars
    /\ WF_vars(MainThread)
    /\ WF_vars(WorkerStart)
    /\ \A j \in 1..MaxJobs : WF_vars(FeedJob(j))

\* ----------------------------------------------------------- get_file_ext
\* Strings are sequences of characters.
Chars == {"/", ".", "a", "b"}
\* The URL of an episode is not empty.
Urls == UNION { [1..n -> Chars] : n \in 1..MaxUrlLen }

\* The content types of the match of get_file_ext.
MappedMimeTypes ==
    { "audio/3gpp", "audio/aac", "audio/x-m4a", "audio/midi", "audio/x-midi",
      "audio/mpeg", "audio/ogg", "audio/opus", "audio/wav", "audio/webm",
      "video/quicktime", "video/mp4", "video/x-m4v" }
\* Content types a server may declare that the match does not list.
OtherMimeTypes == { "text/html", "application/octet-stream" }
\* response.header("content-type")
ContentTypes == {None} \cup { Some(m) : m \in MappedMimeTypes \cup OtherMimeTypes }

Mp3 == << "m", "p", "3" >>

\* str::rsplit(c): the pieces of s between occurrences of c, last piece first.
RECURSIVE RSplit(_, _)
RSplit(s, c) ==
    LET at == { i \in 1..Len(s) : s[i] = c }
    IN IF at = {} THEN << s >>
       ELSE LET k == CHOOSE i \in at : \A i2 \in at : i2 <= i
            IN << SubSeq(s, k + 1, Len(s)) >> \o RSplit(SubSeq(s, 1, k - 1), c)

\* Iterator::next on a fresh iterator over `pieces`.
IterNext(pieces) == IF pieces = << >> THEN None ELSE Some(Head(pieces))

\* The arms of the match that name a content type.
MimeMatch(mime_type) ==
    CASE mime_type = Some("audio/3gpp") -> Some(<< "3", "g", "p" >>)
      [] mime_type = Some("audio/aac") -> Some(<< "a", "a", "c" >>)
      [] mime_type = Some("audio/x-m4a") -> Some(<< "m", "4", "a" >>)
      [] mime_type = Some("audio/midi") -> Some(<< "m", "i", "d" >>)
      [] mime_type = Some("audio/x-midi") -> Some(<< "m", "i", "d" >>)
      [] mime_type = Some("audio/mpeg") -> Some(<< "m", "p", "3" >>)
      [] mime_type = Some("audio/ogg") -> Some(<< "o", "g", "a" >>)
      [] mime_type = Some("audio/opus") -> Some(<< "o", "p", "u", "s" >>)
      [] mime_type = Some("audio/wav") -> Some(<< "w", "a", "v" >>)
      [] mime_type = Some("audio/webm") -> Some(<< "w", "e", "b", "a" >>)
      [] mime_type = Some("video/quicktime") -> Some(<< "m", "o", "v" >>)
      [] mime_type = Some("video/mp4") -> Some(<< "m", "p", "4" >>)
      [] mime_type = Some("video/x-m4v") -> Some(<< "m", "4", "v" >>)
      [] OTHER -> None

\* The `_` arm: what is after the last slash, then what is after the last dot.
UrlExt(u) ==
    LET file_name == IterNext(RSplit(u, "/"))
    IN IF file_name.some
       THEN IterNext(RSplit(file_name.val, "."))
       ELSE None

\* Mutant of GetFileExt: the URL is consulted before the content type.
GetFileExtUrlFirst(mime_type, u) ==
    LET found == UrlExt(u)
    IN IF found.some /\ found.val # << >> THEN found ELSE MimeMatch(mime_type)

GetFileExt(mime_type, u) ==
    LET matched == MimeMatch(mime_type)
    IN IF matched.some THEN matched ELSE UrlExt(u)

\* download_file: `Some(ext) => ext, None => "mp3"`.
ResolveExt(mime_type, u) ==
    LET found == GetFileExt(mime_type, u)
    IN IF found.some THEN found.val ELSE Mp3

\* download_file working out the extension of one response.
FigureOutFileType ==
    /\ ~resolved
    /\ ext' = ResolveExt(mime, url)
    /\ resolved' = TRUE
    /\ UNCHANGED << mime, url, title, pubdate, filename_prefix,
                    filename_suffix, dest_name, responses, panelVars, mainVars,
                    poolVars, cfgVars >>

\* A download job that has its response: any declared content type, any URL.
InitExt ==
    /\ mode = "download"
    /\ build = "release"
    /\ size = 1
    /\ max_retries = 1
    /\ replace = FALSE
    /\ db = {}
    /\ db_cleared = FALSE
    /\ loaded = FALSE
    /\ opml = << >>
    /\ old_podcasts = {}
    /\ db_log = << >>
    /\ podcast_list = << >>
    /\ episodes = << 1 >>
    /\ pc = "returned"
    /\ pool_created = TRUE
    /\ chan_created = TRUE
    /\ queue = << >>
    /\ running = {1}
    /\ jobs = << [NewJob(1) EXCEPT !.pc = "fetched", !.fetched = TRUE,
                                   !.attempts = 1] >>
    /\ chan = << >>
    /\ received = << >>
    /\ msg_counter = 0
    /\ failure = FALSE
    /\ ret = "none"
    /\ mime \in ContentTypes
    /\ url \in Urls
    /\ resolved = FALSE
    /\ ext = << >>
    /\ title = << >>
    /\ pubdate = None
    /\ filename_prefix = << >>
    /\ filename_suffix = << >>
    /\ dest_name = None
    /\ responses = << >>
    /\ n_row = 2
    /\ buffer = << >>

NextExt == FigureOutFileType

SpecExt == InitExt /\ [][NextExt]_vars

\* ------------------------------------------------- the destination name
\* Most pieces a title of the model is made of.
MaxPieces == 5

\* Length the sanitizer truncates to (`truncate: true`).
MaxNameLen == 255

\* The pieces the titles of the model are made of.
Pieces ==
    { << "E", "p" >>, << ":", " " >>, << "O", "n", "e" >>, << "/" >>,
      << "T", "w", "o" >> }

RECURSIVE Concat(_)
Concat(ss) == IF ss = << >> THEN << >> ELSE Head(ss) \o Concat(Tail(ss))

Titles == { Concat(ps) : ps \in UNION { [1..n -> Pieces] : n \in 0..MaxPieces } }

\* The characters `windows: true` makes illegal in a file name.
IllegalChars == { "/", "?", "<", ">", "\\", ":", "*", "|", "\"" }

\* Mutant of Sanitize: an illegal character is replaced with a space.
SanitizeReplacesWithSpace(t) ==
    LET kept == [i \in 1..Len(t) |-> IF t[i] \in IllegalChars THEN " " ELSE t[i]]
    IN SubSeq(kept, 1, IF Len(kept) > MaxNameLen THEN MaxNameLen ELSE Len(kept))

\* sanitize_with_options(&ep_data.title, Options { truncate: true,
\* windows: true, replacement: "" }): every illegal character is replaced
\* with the empty string, and the result is truncated.
Sanitize(t) ==
    LET kept == SelectSeq(t, LAMBDA c : c \notin IllegalChars)
    IN SubSeq(kept, 1, IF Len(kept) > MaxNameLen THEN MaxNameLen ELSE Len(kept))

\* The year of the publish date of the model.
Year == << "2", "0", "2", "4" >>
\* The date templates of the model, as sequences of items: "%Y" or a literal.
Templates == { << >>, << "%Y", "-" >> }

\* pubdate.format(template): "%Y" renders the year, a literal itself.
RECURSIVE Format(_, _)
Format(date, template) ==
    IF template = << >> THEN << >>
    ELSE (IF Head(template) = "%Y" THEN date ELSE << Head(template) >>)
         \o Format(date, Tail(template))

\* file_name, then format!("{file_name}.{ext}").
FileName(t, date, prefix, suffix, e) ==
    LET file_name == Sanitize(t)
        dated == IF date.some
                 THEN Format(date.val, prefix) \o file_name
                      \o Format(date.val, suffix)
                 ELSE file_name
    IN dated \o << "." >> \o e

\* download_file naming the destination file, once it has the extension.
NameFile ==
    /\ resolved
    /\ ~dest_name.some
    /\ dest_name' = Some(FileName(title, pubdate, filename_prefix,
                                  filename_suffix, ext))
    /\ UNCHANGED << mime, url, resolved, ext, title, pubdate, filename_prefix,
                    filename_suffix, responses, panelVars, mainVars, poolVars,
                    cfgVars >>

\* The URL of the model's episode: ".../file.mp3".
FileMp3Url == << "/", "f", "i", "l", "e", ".", "m", "p", "3" >>

\* A download job that has its response, for any title. The content type,
\* the publish date and the templates vary for the shortest titles.
InitName ==
    /\ mode = "download"
    /\ build = "release"
    /\ size = 1
    /\ max_retries = 1
    /\ replace = FALSE
    /\ db = {}
    /\ db_cleared = FALSE
    /\ loaded = FALSE
    /\ opml = << >>
    /\ old_podcasts = {}
    /\ db_log = << >>
    /\ podcast_list = << >>
    /\ episodes = << 1 >>
    /\ pc = "returned"
    /\ pool_created = TRUE
    /\ chan_created = TRUE
    /\ queue = << >>
    /\ running = {1}
    /\ jobs = << [NewJob(1) EXCEPT !.pc = "fetched", !.fetched = TRUE,
                                   !.attempts = 1] >>
    /\ chan = << >>
    /\ received = << >>
    /\ msg_counter = 0
    /\ failure = FALSE
    /\ ret = "none"
    /\ title \in Titles
    /\ mime \in (IF Len(title) <= 4
                 THEN { Some("audio/mpeg"), Some("text/html") }
                 ELSE { Some("audio/mpeg") })
    /\ url = FileMp3Url
    /\ resolved = FALSE
    /\ ext = << >>
    /\ pubdate \in (IF Len(title) <= 4 THEN { None, Some(Year) } ELSE { None })
    /\ filename_prefix \in (IF Len(title) <= 4 THEN Templates ELSE { << >> })
    /\ filename_suffix \in (IF Len(title) <= 1 THEN Templates ELSE { << >> })
    /\ dest_name = None
    /\ responses = << >>
    /\ n_row = 2
    /\ buffer = << >>

NextName ==
    \/ FigureOutFileType
    \/ NameFile

SpecName == InitName /\ [][NextName]_vars

\* --------------------------------------------------- one download job
\* One download job on a worker, for every budget and both builds, with the
\* history of the results of its GETs.
InitRetry ==
    /\ mode = "download"
    /\ build \in {"debug", "release"}
    /\ size = 1
    /\ max_retries \in 0..MaxRetries
    /\ replace = FALSE
    /\ db = {}
    /\ db_cleared = FALSE
    /\ loaded = FALSE
    /\ opml = << >>
    /\ old_podcasts = {}
    /\ db_log = << >>
    /\ podcast_list = << >>
    /\ episodes = << 1 >>
    /\ pc = "returned"
    /\ pool_created = TRUE
    /\ chan_created = TRUE
    /\ queue = << >>
    /\ running = {1}
    /\ jobs = << [NewJob(1) EXCEPT !.pc = "running"] >>
    /\ chan = << >>
    /\ received = << >>
    /\ msg_counter = 0
    /\ failure = FALSE
    /\ ret = "none"
    /\ mime = None
    /\ url = << >>
    /\ resolved = FALSE
    /\ ext = << >>
    /\ title = << >>
    /\ pubdate = None
    /\ filename_prefix = << >>
    /\ filename_suffix = << >>
    /\ dest_name = None
    /\ responses = << >>
    /\ n_row = 2
    /\ buffer = << >>

NextRetry ==
    \/ DlFetchLogged(1)
    \/ DlCreate(1)
    \/ DlStorePath(1)
    \/ DlCopy(1)

SpecRetry == InitRetry /\ [][NextRetry]_vars

\* ------------------------------------- the loop against the Message type
\* A unit that owns a clone of the Sender<Message>: the type lets it send a
\* message of any tag.
AnyJob(j) ==
    /\ j \in running
    /\ jobs[j].pc = "running"
    /\ \E tag \in MessageTags :
        SendAndEnd(j, jobs[j], tag)
    /\ UNCHANGED << mainVars, extVars, cfgVars, queue >>

\* sync_podcasts or import about to enter its loop: every job of the batch
\* is submitted, none has started.
InitMsg ==
    /\ mode \in {"sync", "import"}
    /\ build = "release"
    /\ size = 1
    /\ max_retries = MaxRetries
    /\ replace = FALSE
    /\ podcast_list \in { [i \in 1..n |-> i] : n \in 1..MaxBatch }
    /\ db = (IF mode = "sync" THEN 1..Len(podcast_list) ELSE {})
    /\ db_cleared = FALSE
    /\ loaded = TRUE
    /\ opml = (IF mode = "import" THEN podcast_list ELSE << >>)
    /\ old_podcasts = {}
    /\ db_log = (IF mode = "import"
                THEN << [call |-> "connect", result |-> "ok"],
                        [call |-> "get_podcasts", result |-> "ok"] >>
                ELSE << >>)
    /\ episodes = << >>
    /\ pc = "loop"
    /\ pool_created = TRUE
    /\ chan_created = TRUE
    /\ queue = [i \in 1..Len(podcast_list) |-> i]
    /\ running = {}
    /\ jobs = [i \in 1..Len(podcast_list) |-> NewJob(podcast_list[i])]
    /\ chan = << >>
    /\ received = << >>
    /\ msg_counter = 0
    /\ failure = FALSE
    /\ ret = "none"
    /\ mime = None
    /\ url = << >>
    /\ resolved = FALSE
    /\ ext = << >>
    /\ title = << >>
    /\ pubdate = None
    /\ filename_prefix = << >>
    /\ filename_suffix = << >>
    /\ dest_name = None
    /\ responses = << >>
    /\ n_row = 2
    /\ buffer = << >>

NextMsg ==
    \/ WorkerStart
    \/ \E j \in JobIds : AnyJob(j)
    \/ SyncLoop
    \/ ImportLoop

SpecMsg == InitMsg /\ [][NextMsg]_vars

\* ---------------------------------------------- the loop and a lost message
\* A unit that ends without sending: it panics, or returns, before its send.
LostJob(j) ==
    /\ j \in running
    /\ jobs[j].pc = "running"
    /\ jobs' = [jobs EXCEPT ![j].pc = "panicked"]
    /\ running' = running \ {j}
    /\ UNCHANGED << mainVars, extVars, cfgVars, queue, chan >>

NextLost ==
    \/ WorkerStart
    \/ \E j \in JobIds : FeedJob(j)
    \/ \E j \in JobIds : LostJob(j)
    \/ SyncLoop
    \/ ImportLoop

\* Every step that can be taken is taken: the threads keep running.
SpecLost == InitMsg /\ [][NextLost]_vars /\ WF_vars(NextLost)

\* ------------------------------------------- the loop and a surplus message
\* A unit that sends a message and goes on: nothing in Sender<Message> bounds
\* the number of messages its owner sends. One such message per batch.
StraySend(j) ==
    /\ pc = "loop"
    /\ j \in running
    /\ jobs[j].pc = "running"
    /\ \A k \in DOMAIN jobs : jobs[k].sent = IF jobs[k].pc = "done" THEN 1 ELSE 0
    /\ \E tag \in MessageTags :
        /\ chan' = Append(chan, [tag |-> tag, job |-> j, item |-> jobs[j].item])
        /\ jobs' = [jobs EXCEPT ![j].sent = @ + 1]
    /\ UNCHANGED << mainVars, extVars, cfgVars, queue, running >>

InitStray == InitMsg /\ Len(podcast_list) <= MaxStrayBatch

NextStray ==
    \/ WorkerStart
    \/ \E j \in JobIds : AnyJob(j)
    \/ \E j \in JobIds : StraySend(j)
    \/ SyncLoop
    \/ ImportLoop

SpecStray == InitStray /\ [][NextStray]_vars


\* ----------------------------------------------------------- mock Panel
\* Largest number of rows a panel is given.
MaxRows == 6

\* The lines written into a panel.
Lines == {"", "x"}

\* vec![String::new(); n]
EmptyLines(n) == [i \in 1..n |-> ""]

\* Number of iterations of `for _ in lo..hi`.
RangeCount(lo, hi) == IF hi > lo THEN hi - lo ELSE 0

\* Panel::clear_inner
ClearInner ==
    /\ buffer' = EmptyLines(n_row - 2)
    /\ UNCHANGED << n_row, nameVars, responses, mainVars, poolVars, cfgVars >>

\* Panel::write_line(y, string), for a row the buffer has.
WriteLine ==
    /\ \E y \in 0..(Len(buffer) - 1), string \in Lines :
        buffer' = [buffer EXCEPT ![y + 1] = string]
    /\ UNCHANGED << n_row, nameVars, responses, mainVars, poolVars, cfgVars >>

\* Panel::resize(n_row, n_col, start_x): the buffer is truncated, or one
\* empty line is pushed per iteration of `(new_len - len)..new_len`.
Resize ==
    /\ \E rows \in 2..MaxRows :
        LET new_len == rows - 2
            len == Len(buffer)
        IN /\ n_row' = rows
           /\ buffer' = IF new_len < len THEN SubSeq(buffer, 1, new_len)
                        ELSE IF new_len > len
                        THEN buffer \o EmptyLines(RangeCount(new_len - len, new_len))
                        ELSE buffer
    /\ UNCHANGED << nameVars, responses, mainVars, poolVars, cfgVars >>

\* Panel::new(.., n_row, ..), for a panel tall enough to have borders.
InitPanel ==
    /\ mode = "download"
    /\ build = "release"
    /\ size = 1
    /\ max_retries = 1
    /\ replace = FALSE
    /\ db = {}
    /\ db_cleared = FALSE
    /\ loaded = FALSE
    /\ opml = << >>
    /\ old_podcasts = {}
    /\ db_log = << >>
    /\ podcast_list = << >>
    /\ episodes = << >>
    /\ pc = "returned"
    /\ pool_created = TRUE
    /\ chan_created = TRUE
    /\ queue = << >>
    /\ running = {}
    /\ jobs = << >>
    /\ chan = << >>
    /\ received = << >>
    /\ msg_counter = 0
    /\ failure = FALSE
    /\ ret = "none"
    /\ mime = None
    /\ url = << >>
    /\ resolved = FALSE
    /\ ext = << >>
    /\ title = << >>
    /\ pubdate = None
    /\ filename_prefix = << >>
    /\ filename_suffix = << >>
    /\ dest_name = None
    /\ responses = << >>
    /\ n_row \in 2..MaxRows
    /\ buffer = EmptyLines(n_row - 2)

NextPanel ==
    \/ ClearInner
    \/ WriteLine
    \/ Resize

SpecPanel == InitPanel /\ [][NextPanel]_vars

\* ======================================================================
\* Properties
\* ======================================================================
Range(f) == { f[i] : i \in DOMAIN f }
Ended(j) == jobs[j].pc \in {"done", "panicked"}

\* C1: every download job submitted by download_list sends exactly one
\* Message::Dl on every path of download_file, an internal failure included:
\* a job never sends two messages, and a job whose unit has ended has sent one.
C1_ExactlyOneOutcomePerJob ==
    mode = "download" =>
        \A j \in JobIds :
            /\ jobs[j].sent <= 1
            /\ Ended(j) => jobs[j].sent = 1

\* C2: under fair scheduling, with every job sending its one message, the
\* aggregation loop of a batch of N jobs (N >= 0) terminates with a verdict,
\* and when it has terminated it has received exactly N messages: never fewer.
C2_LoopReceivesNThenTerminates ==
    /\ [](mode # "download" /\ pc = "done" /\ loaded /\ ret # "none" /\ pool_created
            => /\ msg_counter = Len(podcast_list)
               /\ Len(received) = Len(podcast_list)
               /\ Len(jobs) = Len(podcast_list))
    /\ [](mode # "download" /\ pc = "done" /\ ~pool_created
            => msg_counter = 0 /\ jobs = << >>)
    /\ (mode # "download" => <>(pc = "done" /\ ret # "none"))

C2_Witness ==
    /\ pc = "done"
    /\ Len(podcast_list) = MaxJobs
    /\ msg_counter = MaxJobs
    /\ ret \in {"ok", "err"}

\* The failure-tagged outcomes: a download failure tag or a feed Error.
FailureTags == {"Error"} \cup DlFailureTags
\* The success-tagged outcomes.
SuccessTags == {"SyncData", "NewData", "Complete"}
Received == 1..Len(received)
\* The loop has broken out and the function has returned its verdict.
BatchDone == mode # "download" /\ pc = "done" /\ pool_created /\ ret # "none"

\* C3 (as stated): the verdict of a batch is failure if and only if at least
\* one message the loop received was failure-tagged (a download failure tag
\* or a feed Error).
C3_FailureIffFailureTagged ==
    BatchDone =>
        (ret = "err" <=> \E i \in Received : received[i].tag \in FailureTags)

\* C3 (amended): the verdict of a batch is failure if and only if at least
\* one message the loop received was a feed Error or a SyncData / NewData
\* message whose store call failed; the download tags do not count.
C3_FailureIffErrorOrStoreFailure ==
    BatchDone =>
        (ret = "err" <=> \E i \in Received :
                            \/ received[i].tag = "Error"
                            \/ received[i].db_result = "fail")

C3_Witness ==
    /\ BatchDone
    /\ ret = "err"
    /\ Len(received) >= 2
    /\ \A i \in Received : received[i].tag \notin FailureTags

\* C4: for every budget B >= 1, a download job whose every GET fails makes
\* exactly B attempts and then returns ResponseError: while all its attempts
\* have failed it has made at most B of them, it has ended exactly when it
\* has made B, and then with ResponseError.
C4_ExactlyBAttempts ==
    mode = "download" /\ max_retries >= 1 =>
        \A j \in JobIds :
            /\ ~jobs[j].fetched =>
                /\ jobs[j].attempts <= max_retries
                /\ (jobs[j].attempts = max_retries) <=> Ended(j)
                /\ Ended(j) => jobs[j].result = "ResponseError"
            /\ jobs[j].result = "ResponseError" =>
                ~jobs[j].fetched /\ jobs[j].attempts = max_retries

C4_Witness ==
    /\ mode = "download"
    /\ max_retries = MaxRetries
    /\ \E j \in JobIds :
        /\ jobs[j].result = "ResponseError"
        /\ jobs[j].attempts = MaxRetries
        /\ jobs[j].sent = 1

\* C5: in every state of a pool created with new(size), at most `size` units
\* are executing, and every other submitted unit that has not ended is in the
\* queue, once: it is neither run nor dropped.
C5_AtMostSizeRunning ==
    /\ Cardinality(running) <= size
    /\ \A j \in JobIds :
        /\ (j \in running) <=> jobs[j].pc \in {"running", "fetched", "opened", "created"}
        /\ (jobs[j].pc = "queued") <=> (j \in Range(queue))
        /\ Cardinality({ i \in 1..Len(queue) : queue[i] = j }) <= 1
    /\ Range(queue) \subseteq JobIds

C5_Witness ==
    /\ Cardinality(running) = size
    /\ size = MaxSize
    /\ queue # << >>


Unmapped(mime_type) == mime_type = None \/ mime_type.val \notin MappedMimeTypes

\* The text of s after its last c; all of s when c does not occur in it.
AfterLast(s, c) ==
    LET at == { i \in 1..Len(s) : s[i] = c }
    IN IF at = {} THEN s
       ELSE SubSeq(s, (CHOOSE i \in at : \A k \in at : k <= i) + 1, Len(s))

\* The extension the URL fallback is said to give: the text after the last
\* '.' of the last '/'-delimited segment, mp3 when that segment has no '.'
\* or nothing after it.
UrlExtOrMp3(u) ==
    LET segment == AfterLast(u, "/")
    IN IF (\E i \in 1..Len(segment) : segment[i] = ".")
          /\ AfterLast(segment, ".") # << >>
       THEN AfterLast(segment, ".")
       ELSE Mp3

\* C7: for an absent or unmapped content type the resolved extension is the
\* text after the last '.' of the URL's last segment, and mp3 when that
\* segment has no '.' or no text after it.
C7_UnmappedTypeGivesUrlExtOrMp3 ==
    resolved /\ Unmapped(mime) => ext = UrlExtOrMp3(url)

\* The fixed MIME table.
MimeTable ==
    [ m \in MappedMimeTypes |->
        CASE m = "audio/3gpp" -> << "3", "g", "p" >>
          [] m = "audio/aac" -> << "a", "a", "c" >>
          [] m = "audio/x-m4a" -> << "m", "4", "a" >>
          [] m \in {"audio/midi", "audio/x-midi"} -> << "m", "i", "d" >>
          [] m = "audio/mpeg" -> << "m", "p", "3" >>
          [] m = "audio/ogg" -> << "o", "g", "a" >>
          [] m = "audio/opus" -> << "o", "p", "u", "s" >>
          [] m = "audio/wav" -> << "w", "a", "v" >>
          [] m = "audio/webm" -> << "w", "e", "b", "a" >>
          [] m = "video/quicktime" -> << "m", "o", "v" >>
          [] m = "video/mp4" -> << "m", "p", "4" >>
          [] m = "video/x-m4v" -> << "m", "4", "v" >> ]

\* C8: for every content type of the MIME table the resolved extension is
\* the table's, whatever the URL is.
C8_MappedTypeGivesTableExt ==
    resolved /\ ~Unmapped(mime) => ext = MimeTable[mime.val]

C8_Witness ==
    /\ resolved
    /\ mime = Some("audio/ogg")
    /\ url = << "a", ".", "b" >>
    /\ ext = << "o", "g", "a" >>

\* C9: a failure outcome stops neither the loop nor any other job: the loop
\* is still receiving after a failure until it has N messages, each from a
\* different job that ran to its end, and every success message received,
\* before or after a failure, has had its store operation applied, once,
\* whatever the verdict.
C9_FailureStopsNothing ==
    mode # "download" =>
        /\ \A i \in Received :
            /\ received[i].tag \in SuccessTags =>
                /\ received[i].call # "none"
                /\ received[i].db_result \in {"ok", "fail"}
                /\ (received[i].call = "insert_podcast"
                        /\ received[i].db_result = "ok")
                    => jobs[received[i].job].item \in db
            /\ jobs[received[i].job].pc = "done"
            /\ \A k \in Received : k # i => received[k].job # received[i].job
        /\ (failure /\ pool_created /\ Len(received) < Len(podcast_list))
                => pc = "loop"
        /\ BatchDone => Len(received) = Len(podcast_list)

C9_Witness ==
    /\ BatchDone
    /\ ret = "err"
    /\ Len(received) = 3
    /\ received[1].tag \in SuccessTags /\ received[1].db_result = "ok"
    /\ received[2].tag = "Error"
    /\ received[3].tag \in SuccessTags /\ received[3].db_result = "ok"

\* C10: when the expected job count is zero (sync with no podcast in the
\* store, import with an empty OPML list or one that is empty once the known
\* URLs are removed) the operation returns success at once: no pool, no
\* channel, no job, no receive; the loop is never entered with N = 0.
C10_EmptyBatchReturnsAtOnce ==
    mode # "download" =>
        /\ (loaded /\ Len(podcast_list) = 0) =>
            /\ pc = "done"
            /\ ret = "ok"
            /\ ~pool_created
            /\ ~chan_created
            /\ jobs = << >> /\ queue = << >> /\ chan = << >>
            /\ received = << >> /\ msg_counter = 0
        /\ pc \in {"submit", "loop"} => Len(podcast_list) > 0

C10_Witness ==
    /\ mode = "import"
    /\ loaded
    /\ Len(opml) > 0
    /\ podcast_list = << >>
    /\ pc = "done"
    /\ ret = "ok"

\* C11 (as stated): the destination path is stored into the descriptor before
\* any file I/O is attempted: a job that has attempted File::create already
\* has its file_path set.
C11_PathStoredBeforeFileIO ==
    \A j \in JobIds : jobs[j].dst # "none" => jobs[j].file_path = "set"

\* C11 (amended): the destination path is stored into the descriptor right
\* after File::create is attempted and before its result is examined, so
\* before any outcome of the file phase is returned: a job that is copying,
\* and every FileCreateError, FileWriteError and Complete outcome, has a
\* descriptor whose file_path is set, whether or not the file was created.
C11_PathStoredBeforeOutcome ==
    \A j \in JobIds :
        \/ jobs[j].pc = "created"
        \/ jobs[j].result \in {"FileCreateError", "FileWriteError", "Complete"}
        => /\ jobs[j].file_path = "set"
           /\ jobs[j].dst # "none"

C11_Witness ==
    /\ \E j \in JobIds :
        /\ jobs[j].result = "FileCreateError"
        /\ ~jobs[j].created
        /\ jobs[j].file_path = "set"
        /\ jobs[j].sent = 1
    /\ \E j \in JobIds :
        /\ jobs[j].result = "FileWriteError"
        /\ jobs[j].created
        /\ jobs[j].file_path = "set"
        /\ jobs[j].sent = 1

\* The title, the content type and the names of the scenario of C13.
EpOneTwoTitle ==
    << "E", "p", ":", " ", "O", "n", "e", "/", "T", "w", "o" >>
EpOneSpaceTwoMp3 ==
    << "E", "p", " ", "O", "n", "e", " ", "T", "w", "o", ".", "m", "p", "3" >>
EpOneTwoMp3 ==
    << "E", "p", " ", "O", "n", "e", "T", "w", "o", ".", "m", "p", "3" >>
\* The scenario's descriptor and response, once the file is named.
ScenarioNamed ==
    /\ title = EpOneTwoTitle
    /\ url = FileMp3Url
    /\ mime = Some("audio/mpeg")
    /\ pubdate = None
    /\ filename_prefix = << >>
    /\ filename_suffix = << >>
    /\ dest_name.some

\* C13 (as stated): for the title 'Ep: One/Two', a URL ending in 'file.mp3',
\* content type 'audio/mpeg', no publish date and empty prefix and suffix,
\* the destination file is named 'Ep One Two.mp3'.
C13_NamedEpOneSpaceTwo ==
    ScenarioNamed => dest_name.val = EpOneSpaceTwoMp3

\* C13 (amended): for that descriptor the destination file is named
\* 'Ep OneTwo.mp3': ':' and '/' are replaced with the empty string, so
\* nothing stands between 'One' and 'Two'; the extension is the one of the
\* content type.
C13_NamedEpOneTwo ==
    ScenarioNamed => dest_name.val = EpOneTwoMp3

C13_Witness ==
    /\ ScenarioNamed
    /\ dest_name = Some(EpOneTwoMp3)

\* Positions of the OPML list whose URL the database did not hold.
Unknown == { i \in 1..Len(opml) : opml[i] \notin old_podcasts }
\* import has called check_feed for its whole list.
ImportSubmitted == mode = "import" /\ pool_created /\ pc \in {"loop", "done"}

Inserted ==
    { jobs[received[i].job].item :
        i \in { k \in Received : /\ received[k].call = "insert_podcast"
                                 /\ received[k].db_result = "ok" } }
ClearDbFailed ==
    \E i \in 1..Len(db_log) :
        db_log[i].call = "clear_db" /\ db_log[i].result = "err"

FailedGets == { i \in 1..Len(responses) : responses[i] # "Ok" }

\* C16: for a budget B >= 1 the retry loop stops at the first successful
\* attempt and the job fails for good only when the budget reaches zero after
\* a failed attempt: no attempt follows a success; if the k-th attempt is the
\* first to succeed then k <= B, exactly k attempts are made and the outcome
\* is not ResponseError; ResponseError is returned exactly when B attempts
\* have failed; and every failed attempt, non-success status or transport
\* error alike, takes one unit of the budget.
C16_StopsAtFirstSuccess ==
    max_retries >= 1 =>
        LET job == jobs[1] IN
        /\ job.attempts = Len(responses)
        /\ \A i \in 1..Len(responses) - 1 : responses[i] # "Ok"
        /\ job.budget = max_retries - Cardinality(FailedGets)
        /\ job.fetched <=>
              Len(responses) >= 1 /\ responses[Len(responses)] = "Ok"
        /\ job.fetched =>
            /\ Len(responses) <= max_retries
            /\ job.result # "ResponseError"
        /\ job.result = "ResponseError" <=>
            /\ Len(responses) = max_retries
            /\ Cardinality(FailedGets) = max_retries
        /\ job.result = "ResponseError" => job.budget = 0 /\ job.sent = 1

C16_Witness ==
    /\ max_retries = 2
    /\ responses = << "StatusError", "Ok" >>
    /\ jobs[1].attempts = 2
    /\ jobs[1].result = "Complete"

\* Messages sent so far, by all the jobs.
Sent == LET RECURSIVE Sum(_)
            Sum(k) == IF k = 0 THEN 0 ELSE jobs[k].sent + Sum(k - 1)
        IN Sum(Len(jobs))

\* C17: with N = podcast_list.len(), in every reachable state of a batch
\* 0 <= msg_counter <= N; every message received, whatever its tag, has
\* raised msg_counter by exactly one, the tags the loop ignores included; and
\* the loop leaves exactly when the counter reaches N, so that nothing is
\* received after that even when messages are left in the channel.
C17_CounterBoundedByN ==
    pool_created /\ pc \in {"loop", "done"} =>
        /\ 0 <= msg_counter
        /\ msg_counter <= Len(podcast_list)
        /\ msg_counter = Len(received)
        /\ Len(received) + Len(chan) = Sent
        /\ pc = "done" <=> msg_counter = Len(podcast_list)

C17_Witness ==
    /\ pc = "done"
    /\ msg_counter = MaxStrayBatch
    /\ Len(received) = MaxStrayBatch
    /\ chan # << >>
    /\ \E i \in Received : StoreCall(mode, received[i].tag) = "none"
                           /\ received[i].tag # "Error"

\* A job of the batch has ended without sending its message.
SomeJobLost == \E j \in JobIds : jobs[j].pc = "panicked" /\ jobs[j].sent = 0

\* C18: if one of the N submitted jobs never sends its message, the
\* aggregation loop never terminates and never yields a verdict: the counter
\* stays below N, and once every other message is received the loop is
\* blocked on its receive for ever, the channel being empty and the
\* function's own sender alive.
C18_LostMessageBlocksLoop ==
    SomeJobLost =>
        /\ pc = "loop"
        /\ ret = "none"
        /\ msg_counter < Len(podcast_list)
        /\ chan = << >> => ~ENABLED LoopIteration

C18_Witness ==
    /\ SomeJobLost
    /\ Len(podcast_list) = MaxBatch
    /\ \A j \in JobIds : Ended(j)
    /\ chan = << >>
    /\ msg_counter = MaxBatch - 1
    /\ pc = "loop"

\* Positions of the database log holding a call of the given name.
Calls(name) == { i \in 1..Len(db_log) : db_log[i].call = name }
\* Positions of the loop's log holding a message of the given tag.
Tagged(tag) == { i \in Received : received[i].tag = tag }

\* C19: each SyncData message received by the loop of sync_podcasts calls
\* update_podcast exactly once, each NewData message received by the loop of
\* import calls insert_podcast exactly once, an Error message calls neither,
\* and a failure returned by the store call sets the failure flag, and so
\* the verdict, although the message was a success-tagged outcome.
C19_StoreCalledOncePerDataMessage ==
    mode # "download" =>
        /\ Cardinality(Calls("update_podcast")) =
               IF mode = "sync" THEN Cardinality(Tagged("SyncData")) ELSE 0
        /\ Cardinality(Calls("insert_podcast")) =
               IF mode = "import" THEN Cardinality(Tagged("NewData")) ELSE 0
        /\ \A i \in Received :
            /\ received[i].tag \in SuccessTags <=> received[i].call # "none"
            /\ received[i].db_result = "fail" => failure
        /\ BatchDone /\ (\E i \in Received : received[i].db_result = "fail")
               => ret = "err"

C19_Witness ==
    /\ BatchDone
    /\ mode = "sync"
    /\ ret = "err"
    /\ Len(received) = 2
    /\ \A i \in Received : received[i].tag = "SyncData"
    /\ received[1].db_result = "fail"
    /\ received[2].db_result = "ok"
    /\ Cardinality(Calls("update_podcast")) = 2

\* C20: download_list enqueues exactly one download job per descriptor of
\* its list, each with its own descriptor, its own budget and its own sender
\* (whatever a job sends is sent under its own name, once), and it returns
\* without waiting for any job: its next step never depends on what the jobs
\* have done, and it returns no outcome and receives none.
C20_OneJobPerDescriptor ==
    mode = "download" =>
        /\ Len(jobs) <= Len(episodes)
        /\ \A j \in JobIds : jobs[j].item = episodes[j]
        /\ \A j, k \in JobIds : j # k => jobs[j].item # jobs[k].item
        /\ pc = "returned" <=> ~ENABLED DownloadList
        /\ pc = "returned" => Len(jobs) = Len(episodes)
        /\ Len(queue) + Cardinality(running)
               + Cardinality({ j \in JobIds : Ended(j) }) = Len(jobs)
        /\ \A i \in 1..Len(chan) :
            /\ chan[i].item = episodes[chan[i].job]
            /\ \A k \in 1..Len(chan) : k # i => chan[k].job # chan[i].job
        /\ ret = "none"
        /\ received = << >>

C20_Witness ==
    /\ mode = "download"
    /\ pc = "returned"
    /\ Len(episodes) = MaxEpisodes
    /\ Len(jobs) = MaxEpisodes
    /\ Len(queue) = MaxEpisodes
    /\ \A j \in JobIds : jobs[j].pc = "queued" /\ jobs[j].sent = 0
    /\ chan = << >>

\* The outcomes of download_file that follow the file phase.
FileOutcomes == {"Complete", "FileCreateError", "FileWriteError"}

\* C21: the outcome of a download job carries the descriptor that was
\* submitted: the descriptor of job j, in the job and in the message it
\* sends, is the j-th of the list handed to download_list, no step having
\* assigned its id, pod_id, title, url or pubdate; file_path is the only
\* field a job changes: it is set in Complete, FileCreateError and
\* FileWriteError, unset in ResponseError, and a job that ends in
\* ResponseError has attempted no file creation and created no file.
C21_OnlyFilePathChanges ==
    mode = "download" =>
        /\ \A j \in JobIds :
            /\ jobs[j].item = episodes[j]
            /\ jobs[j].file_path \in {"unset", "set"}
            /\ jobs[j].result \in FileOutcomes => jobs[j].file_path = "set"
            /\ jobs[j].result = "ResponseError" =>
                /\ jobs[j].file_path = "unset"
                /\ jobs[j].dst = "none"
                /\ ~jobs[j].created
                /\ ~jobs[j].fetched
            /\ jobs[j].file_path = "set" => jobs[j].fetched /\ jobs[j].dst # "none"
        /\ \A i \in 1..Len(chan) :
            /\ chan[i].item = episodes[chan[i].job]
            /\ chan[i].tag = jobs[chan[i].job].result

C21_Witness ==
    /\ mode = "download"
    /\ Len(chan) = 2
    /\ \E j \in JobIds :
        /\ jobs[j].result = "ResponseError"
        /\ jobs[j].file_path = "unset"
        /\ ~jobs[j].created
        /\ jobs[j].item = episodes[j]
    /\ \E j \in JobIds :
        /\ jobs[j].result = "Complete"
        /\ jobs[j].file_path = "set"
        /\ jobs[j].item = episodes[j]

\* The jobs whose message the loop has received, and those whose store call
\* failed.
ReceivedFrom == { received[i].job : i \in Received }
StoreFailedFor == { received[i].job :
                      i \in { k \in Received : received[k].db_result = "fail" } }
\* The store operations the loop has applied, by job.
AppliedStoreCalls ==
    { << received[i].job, received[i].call >> :
        i \in { k \in Received : received[k].call # "none" } }
\* The messages arrived in another order than the jobs were submitted in.
OutOfOrder == \E i \in Received : received[i].job # i

\* C22: the verdict and the final count of a batch do not depend on the
\* order in which the messages arrive: when the loop has ended it has
\* counted N messages, one from every job, and the verdict and the store
\* operations applied are those the outcomes of the jobs and the results of
\* their store calls determine, whatever the position each message had in
\* the arrival order.
C22_VerdictIndependentOfOrder ==
    BatchDone =>
        /\ msg_counter = Len(podcast_list)
        /\ Len(received) = Len(jobs)
        /\ ReceivedFrom = JobIds
        /\ \A i \in Received : received[i].tag = jobs[received[i].job].result
        /\ ret = "err" <=>
              \E j \in JobIds : jobs[j].result = "Error" \/ j \in StoreFailedFor
        /\ AppliedStoreCalls =
              { << j, StoreCall(mode, jobs[j].result) >> :
                  j \in { k \in JobIds : jobs[k].result # "Error" } }
        /\ db = CASE mode = "sync" -> Range(podcast_list)
                  [] replace -> Inserted
                  [] OTHER -> old_podcasts \cup Inserted

C22_Witness ==
    /\ BatchDone
    /\ Len(podcast_list) = MaxJobs
    /\ OutOfOrder
    /\ jobs[1].result = "Error"
    /\ received[Len(received)].job = 1
    /\ ret = "err"

\* C23: in sync_podcasts and import, each job sending one message, no send
\* fails for want of a receiver: a job that has still to send finds the
\* receiver alive, the receiver is dropped only when the loop has received
\* its N messages, that is after every job has sent, and no job ends in the
\* "Thread messaging error" panic.
C23_NoSendAfterReceiverDropped ==
    mode # "download" =>
        /\ \A j \in JobIds :
            /\ ~jobs[j].send_failed
            /\ jobs[j].sent <= 1
            /\ jobs[j].pc \in {"queued", "running"} => ReceiverAlive
        /\ pool_created /\ ~ReceiverAlive =>
            /\ msg_counter = Len(podcast_list)
            /\ Len(jobs) = Len(podcast_list)
            /\ \A j \in JobIds : jobs[j].pc = "done" /\ jobs[j].sent = 1
            /\ chan = << >>

C23_Witness ==
    /\ mode # "download"
    /\ pool_created
    /\ ~ReceiverAlive
    /\ Len(podcast_list) = MaxJobs
    /\ \A j \in JobIds : jobs[j].sent = 1 /\ ~jobs[j].send_failed
    /\ received[Len(received)].job # MaxJobs

\* max(1, max_retries)
AtLeastOne(b) == IF b >= 1 THEN b ELSE 1

\* C24 (as stated): for every budget the unsigned type can hold, 0 included,
\* the retry loop makes at most max(1, max_retries) attempts and then returns
\* an outcome: the job never panics on the decrement, the budget never goes
\* round below zero, and no attempt is made past the budget.
C24_NeverUnderflows ==
    /\ jobs[1].attempts <= AtLeastOne(max_retries)
    /\ jobs[1].budget <= max_retries
    /\ jobs[1].pc # "panicked"
    /\ (~jobs[1].fetched /\ jobs[1].attempts = AtLeastOne(max_retries))
           => jobs[1].result = "ResponseError"

\* C25 (as stated): the mock Panel keeps buffer.len() = n_row - 2 after every
\* operation: after new, clear_inner and any sequence of resize calls,
\* growing or shrinking.
C25_BufferLenIsRowsMinusTwo == Len(buffer) = n_row - 2

====
